---------------------------- MODULE Spec2Model ----------------------------
(***************************************************************************)
(* A model of the ascii-cam demo scripts: the landmark classifiers, the    *)
(* gesture debouncing loops, the brightness controls, the grey-level       *)
(* adjustment and quantization, and the key-driven loop of realtime_ascii. *)
(*                                                                         *)
(* Units.  Timestamps (time.time()) are counted in ticks of 0.1 s, so the  *)
(* cooldowns 0.5 s and 1.0 s are 5 and 10 ticks.  Brightness and contrast  *)
(* are counted in tenths, so 1.0 is 10, the step 0.2 is 2 and the clamps   *)
(* 0.2 and 2.0 are 2 and 20.  Keypoint heights (y, growing downward) are   *)
(* counted on an integer grid whose step is 0.1, the margin of             *)
(* simple_realtime_ascii's comparison.                                     *)
(***************************************************************************)
EXTENDS Integers, Sequences, FiniteSets, TLC

VARIABLES
    script,             \* which script is running
    pc,                 \* "loop" | "read_failed" | "quit" | ...: where run() is
    now,                \* current_time: the clock as last read by the loop
    last_gesture_time,  \* run()'s local of that name
    gesture_cooldown,   \* dual_window_ascii's local of that name
    gesture_buffer,     \* self.gesture_buffer
    brightness,         \* self.brightness
    contrast,           \* self.contrast
    show_hands,         \* self.show_hands
    show_ascii,         \* self.show_ascii
    confirmed,          \* observer: the gesture applied by the last iteration
    history,            \* observer: the symbols of the latest camera frames
    since_event,        \* observer: frames since the latest confirmed event
    since_prev_event,   \* observer: frames since the event before that one
    prev_brightness,    \* observer: brightness before the last iteration
    hand,               \* the hand given to the classifiers
    cls,                \* the classifiers' answers for hand, or "unset"
    hand_x,             \* the x coordinates of the same hand seen again
    cls_mirror,         \* the classifiers' answers for that view, or "unset"
    pixel_value,        \* a grey level given to the quantizers
    other_pixel,        \* a second grey level, not below pixel_value
    quantized,          \* what the quantizers made of the two, or "unset"
    setting1,           \* a brightness setting
    setting2,           \* a brightness setting not below setting1
    adjusted,           \* pixel_value adjusted under both, or "unset"
    camera,             \* "open" | "released": the cv2.VideoCapture
    failed_reads,       \* observer: reads of the session that gave no frame
    loop_i,             \* simple_test's loop index i
    char_size,          \* realtime_ascii: processor.char_size
    font_scale,         \* processor.font_scale, in tenths
    brightness_level,   \* processor.brightness_level, in tenths
    dark_mode,          \* processor.dark_mode
    background_color,   \* processor.background_color
    text_color,         \* processor.text_color
    character_set,      \* processor.character_set
    is_recording,       \* processor.is_recording
    show_help,          \* processor.show_help
    video_writer,       \* main()'s video_writer: "None" | "open" | "released"
    last_key,           \* observer: the key the last iteration handled
    prev_theme,         \* observer: the theme before the last iteration
    writer_size,        \* char_size the open video writer was created with
    pressed,            \* observer: the key held during the last iteration
    held,               \* the gesture the user holds from now on, or "None"
    frame_width,        \* processor.frame_width, in characters
    frame_height,       \* processor.frame_height, in characters
    pixel_data,         \* convert_to_ascii's pixel_data: a frame's glyphs
    ascii_text,         \* convert_to_ascii's result for pixel_data
    canvas,             \* the cv2.putText calls of render_ascii_image
    frame_count,        \* debug_hand_detection: run()'s frame_count
    detection_count     \* debug_hand_detection: run()'s detection_count

vars == <<script, pc, now, last_gesture_time, gesture_cooldown, gesture_buffer,
          brightness, contrast, show_hands, show_ascii, confirmed, history,
          since_event, since_prev_event, prev_brightness, hand, cls,
          hand_x, cls_mirror, pixel_value, other_pixel, quantized, setting1,
          setting2, adjusted, camera, failed_reads, loop_i, char_size, font_scale,
          brightness_level, dark_mode, background_color, text_color,
          character_set, is_recording, show_help, video_writer, last_key,
          prev_theme, writer_size, pressed, held, frame_width,
          frame_height, pixel_data, ascii_text, canvas, frame_count,
          detection_count>>

loopVars == <<script, pc, now, last_gesture_time, gesture_cooldown,
              gesture_buffer, brightness, contrast, show_hands, show_ascii,
              confirmed, history, since_event, since_prev_event,
              prev_brightness>>

\* The second view of the hand.
mirrorVars == <<hand_x, cls_mirror>>

\* The inputs and the results of the quantizers.
quantVars == <<pixel_value, other_pixel, quantized>>

\* The inputs and the results of the brightness adjustments.
adjVars == <<setting1, setting2, adjusted>>

\* The camera and how often it failed.
sessionVars == <<camera, failed_reads>>

\* realtime_ascii's processor and main()'s locals; simple_test's index.
rtVars == <<loop_i, char_size, font_scale, brightness_level, dark_mode,
            background_color, text_color, character_set, is_recording,
            show_help, video_writer, last_key>>

\* What realtime_ascii's loop is observed to do to its theme and its writer.
rtObsVars == <<prev_theme, writer_size>>

\* The input and the output of render_ascii_image.
renderVars == <<frame_width, frame_height, pixel_data, ascii_text, canvas>>

\* The counters of HandDetectionDebug.run.
hddVars == <<frame_count, detection_count>>

\* What no loop of a gesture, key or test script touches.
lateVars == <<held, renderVars, hddVars>>

\* What an iteration of a gesture script that got its frame never touches.
extVars == <<mirrorVars, quantVars, adjVars, sessionVars, rtVars, rtObsVars,
             lateVars>>

None == "None"

(***************************************************************************)
(* Hands.  A hand is the height y of each keypoint a classifier reads      *)
(* (MediaPipe indices 0, 2, 3, 4, 6, 8, 10, 12, 14, 16, 18, 20); y grows   *)
(* downward.  The x coordinates (field x) are kept for the keypoints of    *)
(* XKeypoints.  The thumb,                                                 *)
(* the wrist and the four fingertips range over 0..MaxY; the four PIP      *)
(* joints sit at height PipY, strictly inside the range, so every outcome  *)
(* of every comparison a classifier makes (above, level, below) occurs.    *)
(***************************************************************************)
MaxY == 3

PipY == 1

Y == 0..MaxY

MaxX == 1

X == 0..MaxX

\* The x coordinates of a hand: of the thumb's tip and of its IP joint.
XCoords == [thumb_tip : X, thumb_ip : X]

OriginX == [thumb_tip |-> 0, thumb_ip |-> 0]

Hands ==
    [wrist : Y, thumb_mcp : Y, thumb_ip : Y, thumb_tip : Y,
     index_pip : {PipY}, index_tip : Y, middle_pip : {PipY}, middle_tip : Y,
     ring_pip : {PipY}, ring_tip : Y, pinky_pip : {PipY}, pinky_tip : Y,
     x : {OriginX}]

NoHand == [wrist |-> 0, thumb_mcp |-> 0, thumb_ip |-> 0, thumb_tip |-> 0,
           index_pip |-> PipY, index_tip |-> 0, middle_pip |-> PipY,
           middle_tip |-> 0, ring_pip |-> PipY, ring_tip |-> 0,
           pinky_pip |-> PipY, pinky_tip |-> 0, x |-> OriginX]

(***************************************************************************)
(* debug_gestures.py                                                       *)
(***************************************************************************)
\* Mutant: the thumb counts as up when its tip is level with the IP joint.
DG_analyze_hand_level_is_up(h) ==
    [thumb_up        |-> h.thumb_tip <= h.thumb_ip,
     thumb_down      |-> h.thumb_tip > h.thumb_ip,
     index_up        |-> h.index_tip < h.index_pip,
     middle_up       |-> h.middle_tip < h.middle_pip,
     ring_up         |-> h.ring_tip < h.ring_pip,
     pinky_up        |-> h.pinky_tip < h.pinky_pip,
     thumb_above_mcp |-> h.thumb_tip < h.thumb_mcp,
     thumb_below_mcp |-> h.thumb_tip > h.thumb_mcp]

\* landmarks[i][1] is the pixel row cy = int(lm.y * h) that run() computes.
DG_analyze_hand(h) ==
    [thumb_up        |-> h.thumb_tip < h.thumb_ip,
     thumb_down      |-> h.thumb_tip > h.thumb_ip,
     index_up        |-> h.index_tip < h.index_pip,
     middle_up       |-> h.middle_tip < h.middle_pip,
     ring_up         |-> h.ring_tip < h.ring_pip,
     pinky_up        |-> h.pinky_tip < h.pinky_pip,
     thumb_above_mcp |-> h.thumb_tip < h.thumb_mcp,
     thumb_below_mcp |-> h.thumb_tip > h.thumb_mcp]

DG_detect_gesture(fs) ==
    IF fs.thumb_up /\ fs.thumb_above_mcp /\ ~fs.index_up /\ ~fs.middle_up
       /\ ~fs.ring_up /\ ~fs.pinky_up
    THEN "THUMBS UP"
    ELSE IF fs.thumb_down /\ fs.thumb_below_mcp /\ ~fs.index_up
            /\ ~fs.middle_up /\ ~fs.ring_up /\ ~fs.pinky_up
    THEN "THUMBS DOWN"
    ELSE IF fs.index_up /\ fs.middle_up /\ ~fs.ring_up /\ ~fs.pinky_up
    THEN "PEACE SIGN"
    ELSE IF ~fs.thumb_up /\ ~fs.index_up /\ ~fs.middle_up /\ ~fs.ring_up
            /\ ~fs.pinky_up
    THEN "FIST"
    ELSE "Unknown gesture"

(***************************************************************************)
(* quick_gesture_test.py                                                   *)
(***************************************************************************)
QGT_detect_gesture_swapped(h) ==
    LET thumb_up   == h.thumb_tip > h.thumb_ip /\ h.thumb_tip > h.thumb_mcp
        thumb_down == h.thumb_tip < h.thumb_ip /\ h.thumb_tip < h.thumb_mcp
        other_fingers_down ==
            /\ h.index_tip > h.index_pip
            /\ h.middle_tip > h.middle_pip
            /\ h.ring_tip > h.ring_pip
            /\ h.pinky_tip > h.pinky_pip
    IN  IF thumb_up /\ other_fingers_down THEN "thumbs_up"
        ELSE IF thumb_down /\ other_fingers_down THEN "thumbs_down"
        ELSE None

QGT_detect_gesture(h) ==
    LET thumb_up   == h.thumb_tip < h.thumb_ip /\ h.thumb_tip < h.thumb_mcp
        thumb_down == h.thumb_tip > h.thumb_ip /\ h.thumb_tip > h.thumb_mcp
        other_fingers_down ==
            /\ h.index_tip > h.index_pip
            /\ h.middle_tip > h.middle_pip
            /\ h.ring_tip > h.ring_pip
            /\ h.pinky_tip > h.pinky_pip
    IN  IF thumb_up /\ other_fingers_down THEN "thumbs_up"
        ELSE IF thumb_down /\ other_fingers_down THEN "thumbs_down"
        ELSE None

(***************************************************************************)
(* dual_window_ascii.py: the per-frame classification at the head of       *)
(* detect_gestures.  The four tests are separate if statements, each       *)
(* overwriting current_gesture, so the last test that matches decides.     *)
(***************************************************************************)
DWA_current_gesture(h) ==
    LET thumb_extended_up ==
            h.thumb_tip < h.thumb_ip /\ h.thumb_tip < h.thumb_mcp
        other_fingers_down ==
            /\ h.index_tip > h.index_pip
            /\ h.middle_tip > h.middle_pip
            /\ h.ring_tip > h.ring_pip
            /\ h.pinky_tip > h.pinky_pip
        thumb_extended_down ==
            h.thumb_tip > h.thumb_ip /\ h.thumb_tip > h.thumb_mcp
        peace_fingers ==
            /\ h.index_tip < h.index_pip
            /\ h.middle_tip < h.middle_pip
            /\ h.ring_tip > h.ring_pip
            /\ h.pinky_tip > h.pinky_pip
        all_fingers_down ==
            /\ h.thumb_tip > h.thumb_ip
            /\ h.index_tip > h.index_pip
            /\ h.middle_tip > h.middle_pip
            /\ h.ring_tip > h.ring_pip
            /\ h.pinky_tip > h.pinky_pip
        g0 == None
        g1 == IF thumb_extended_up /\ other_fingers_down
              THEN "brightness_up" ELSE g0
        g2 == IF thumb_extended_down /\ other_fingers_down
              THEN "brightness_down" ELSE g1
        g3 == IF peace_fingers THEN "toggle_hands" ELSE g2
        g4 == IF all_fingers_down THEN "reset" ELSE g3
    IN  g4

(***************************************************************************)
(* gesture_only.py                                                         *)
(***************************************************************************)
\* Mutant: the thumb is also asked to point inward (tip x against IP x).
GO_is_thumb_up_reads_x(h) ==
    /\ h.thumb_tip < h.thumb_ip
    /\ h.thumb_tip < h.wrist
    /\ h.index_tip > h.index_pip
    /\ h.x.thumb_tip <= h.x.thumb_ip

GO_is_thumb_up(h) ==
    /\ h.thumb_tip < h.thumb_ip
    /\ h.thumb_tip < h.wrist
    /\ h.index_tip > h.index_pip

GO_is_thumb_down(h) ==
    /\ h.thumb_tip > h.thumb_ip
    /\ h.thumb_tip > h.wrist
    /\ h.index_tip > h.index_pip

\* The branch run() takes for a hand: if is_thumb_up ... elif is_thumb_down.
GO_gesture(h) ==
    IF GO_is_thumb_up(h) THEN "thumb_up"
    ELSE IF GO_is_thumb_down(h) THEN "thumb_down"
    ELSE None

(***************************************************************************)
(* simple_realtime_ascii.py                                                *)
(***************************************************************************)
SRA_Margin == 1

SRA_detect_simple_gesture(h) ==
    IF h.thumb_tip < h.index_tip - SRA_Margin THEN "brightness_up"
    ELSE IF h.thumb_tip > h.index_tip + SRA_Margin THEN "brightness_down"
    ELSE None

(***************************************************************************)
(* The classifiers applied to one hand.                                    *)
(***************************************************************************)
Classify(h) ==
    [dg  |-> DG_detect_gesture(DG_analyze_hand(h)),
     dwa |-> DWA_current_gesture(h),
     qgt |-> QGT_detect_gesture(h),
     go  |-> GO_gesture(h),
     sra |-> SRA_detect_simple_gesture(h)]


Unclassified ==
    [dg |-> "unset", dwa |-> "unset", qgt |-> "unset", go |-> "unset",
     sra |-> "unset"]

\* What the landmark provider and a script's classifier can hand to its loop
\* for one frame: the classification of some hand, or None without a hand.
QGT_Symbols == {QGT_detect_gesture(h) : h \in Hands} \cup {None}

DWA_Symbols == {DWA_current_gesture(h) : h \in Hands} \cup {None}

GO_Symbols == {GO_gesture(h) : h \in Hands} \cup {None}

SRA_Symbols == {SRA_detect_simple_gesture(h) : h \in Hands} \cup {None}

(***************************************************************************)
(* Program constants.                                                      *)
(***************************************************************************)
QGT_buffer_size == 5

QGT_Consecutive == 3

QGT_Cooldown == 10

DWA_buffer_size == 3

DWA_Consecutive == 2

DWA_gesture_cooldown == 5

GO_Cooldown == 10

SRA_Cooldown == 5

BrightnessDefault == 10

BrightnessStep == 2

BrightnessMin == 2

BrightnessMax == 20

ContrastDefault == 10

\* simple_test.py: range(50)
ST_Frames == 50

\* realtime_ascii.py
RT_CharSizeDefault == 5

RT_CharSizeMin == 2

RT_CharSizeMax == 15

RT_FontScaleDefault == 2

RT_BrightnessDefault == 10

RT_BrightnessStep == 1

RT_BrightnessMin == 3

RT_BrightnessMax == 20

RT_Divisor == 22

Black == 0

White == 255

RT_character_set == <<"@", "#", "$", "%", "?", "*", "+", ";", ":", ",", ".", " ">>

\* The 10-glyph ramp "@%#*+=-:. " of the other scripts.
ascii_chars == <<"@", "%", "#", "*", "+", "=", "-", ":", ".", " ">>

\* brightness * 50, per unit of brightness
SAC_BetaScale == 50

\* The largest grey level (np.uint8).
ByteMax == 255

\* seq[::-1]
Reverse(seq) == [k \in 1..Len(seq) |-> seq[Len(seq) + 1 - k]]

\* seq[idx] as Python evaluates it: from the end for a negative idx, an
\* IndexError out of range.
GlyphAt(seq, idx) ==
    IF idx \in 0..(Len(seq) - 1) THEN seq[idx + 1]
    ELSE IF idx \in (0 - Len(seq))..(0 - 1) THEN seq[Len(seq) + idx + 1]
    ELSE "IndexError"

\* Mutant: the ramp's length, not its last index, scales the grey level.
PixelIndex_by_len(p, ramp) == (p * Len(ramp)) \div ByteMax

\* int(pixel_value / 255 * (len(self.ascii_chars) - 1)); for every grey
\* level 0..255 the float quotient truncates to this integer quotient.
PixelIndex(p, ramp) == (p * (Len(ramp) - 1)) \div ByteMax

pixel_to_ascii(p) == GlyphAt(ascii_chars, PixelIndex(p, ascii_chars))

\* Mutant: the remainder instead of the quotient.
RT_index_remainder(p) == p % RT_Divisor

\* Mutant: a divisor one too small.
RT_index_divisor_21(p) == p \div (RT_Divisor - 1)

\* pixel_value // 22
RT_index(p) == p \div RT_Divisor

\* self.character_set[pixel_value // 22]
RT_glyph(cs, p) == GlyphAt(cs, RT_index(p))

\* Nothing quantized yet.
Unquantized ==
    [index |-> 0 - 1, glyph |-> "unset", other_index |-> 0 - 1,
     other_glyph |-> "unset"]

\* A brightness setting: its value in tenths and the sign of the rounding
\* error its float carries (0.2 added five times to 1.0 is not exactly 2.0).
DefaultSetting == [tenths |-> BrightnessDefault, err |-> 0]

(***************************************************************************)
(* Bounds of the model.                                                    *)
(***************************************************************************)
\* The clock when run() starts.  time.time() counts from 1970, so the first
\* reading already exceeds every cooldown measured from last_gesture_time = 0.
StartTime == 11

\* The clock readings explored lie in StartTime..StartTime + Horizon.
Horizon == 12

\* The same, for the runs long enough to reach both brightness clamps.
LongHorizon == 55

\* The observers' frame counters stop counting here.
FrameCap == 3

\* How many failed reads of realtime_ascii's camera are followed.
MaxFailedReads == 2

\* Clock advance between two iterations: none, exactly a cooldown, one tick
\* more than a cooldown.
TimeSteps == {0, DWA_gesture_cooldown, DWA_gesture_cooldown + 1,
              QGT_Cooldown, QGT_Cooldown + 1}

\* Clock advance of the long runs: none, or just past the longest cooldown.
LongSteps == {0, QGT_Cooldown + 1}

Min(a, b) == IF a < b THEN a ELSE b

Max(a, b) == IF a > b THEN a ELSE b

(***************************************************************************)
(* The pieces of the loops.                                                *)
(***************************************************************************)
\* Mutant: the eviction is forgotten.
PushBuffer_no_evict(buf, g, size) == Append(buf, g)

\* gesture_buffer.append(g); if len(gesture_buffer) > buffer_size: pop(0)
PushBuffer(buf, g, size) ==
    LET appended == Append(buf, g)
    IN  IF Len(appended) > size THEN Tail(appended) ELSE appended

\* Mutant: only the newest entry is looked at.
StableGesture_newest_only(buf, c) ==
    IF Len(buf) >= c THEN buf[Len(buf)] ELSE None

\* Mutant: one entry more than c is asked for before anything is stable.
StableGesture_off_by_one(buf, c) ==
    IF Len(buf) > c
    THEN LET recent == SubSeq(buf, Len(buf) - c + 1, Len(buf))
         IN  IF \A i \in 1..c : recent[i] = recent[1] /\ recent[i] # None
             THEN recent[1]
             ELSE None
    ELSE None

\* Mutant: the whole buffer, not its newest c entries, must agree.
StableGesture_whole_buffer(buf, c) ==
    IF Len(buf) >= c
    THEN IF \A i \in 1..Len(buf) : buf[i] = buf[1] /\ buf[i] # None
         THEN buf[1]
         ELSE None
    ELSE None

\* recent = gesture_buffer[-c:]; the common symbol of recent when the buffer
\* holds at least c entries, all equal to recent[0] and none None; else None.
StableGesture(buf, c) ==
    IF Len(buf) >= c
    THEN LET recent == SubSeq(buf, Len(buf) - c + 1, Len(buf))
         IN  IF \A i \in 1..c : recent[i] = recent[1] /\ recent[i] # None
             THEN recent[1]
             ELSE None
    ELSE None

\* Mutant: the time of the last gesture is not subtracted.
CooldownOver_no_subtract(current_time, last, cooldown) == current_time > cooldown

\* current_time - last_gesture_time > cooldown
CooldownOver(current_time, last, cooldown) == current_time - last > cooldown

\* Mutant: the upper clamp is forgotten.
BrightnessUp_unclamped(b) == b + BrightnessStep

BrightnessUp(b) == Min(BrightnessMax, b + BrightnessStep)

BrightnessDown(b) == Max(BrightnessMin, b - BrightnessStep)

\* The newest n entries of seq followed by g.
KeepLast(seq, g, n) ==
    LET all == Append(seq, g)
    IN  IF Len(all) > n THEN SubSeq(all, Len(all) - n + 1, Len(all)) ELSE all

\* The observers after an iteration that read a frame carrying symbol g and
\* applied gesture applied (None when it applied none).
Observe(g, applied, keep) ==
    /\ history' = KeepLast(history, g, keep)
    /\ confirmed' = applied
    /\ since_event' = IF applied # None THEN 0
                      ELSE Min(since_event + 1, FrameCap)
    /\ since_prev_event' = IF applied # None
                           THEN Min(since_event + 1, FrameCap)
                           ELSE Min(since_prev_event + 1, FrameCap)
    /\ prev_brightness' = brightness

\* cv2.waitKey(1) & 0xFF == ord('q'): break
AfterKey(key) == IF key = "q" THEN "quit" ELSE "loop"

(***************************************************************************)
(* quick_gesture_test.py, QuickGestureTest.run: one iteration that reads a *)
(* frame.                                                                  *)
(***************************************************************************)
\* The cooldown started again by every frame with a stable gesture.
QGT_NextLastGestureTime_every_stable(stable, fired, t, last) ==
    IF stable # None THEN t ELSE last

\* last_gesture_time after the frame: stamped in the two branches that
\* change the brightness, nowhere else.
QGT_NextLastGestureTime(stable, fired, t, last) ==
    IF fired THEN t ELSE last

\* The iteration with its frame's symbol drawn from symbols and the key
\* from keys.
QGT_Frame(steps, horizon, symbols, keys) ==
    /\ script = "quick_gesture_test"
    /\ pc = "loop"
    /\ \E dt \in steps, current_gesture \in symbols, key \in keys :
        LET current_time == now + dt
            buf == PushBuffer(gesture_buffer, current_gesture, QGT_buffer_size)
            stable_gesture == StableGesture(buf, QGT_Consecutive)
            apply == /\ stable_gesture # None
                     /\ CooldownOver(current_time, last_gesture_time, QGT_Cooldown)
            up == apply /\ stable_gesture = "thumbs_up"
            down == apply /\ stable_gesture = "thumbs_down"
        IN  /\ current_time <= StartTime + horizon
            /\ now' = current_time
            /\ gesture_buffer' = buf
            /\ brightness' = IF up THEN BrightnessUp(brightness)
                             ELSE IF down THEN BrightnessDown(brightness)
                             ELSE brightness
            /\ last_gesture_time' =
                 QGT_NextLastGestureTime(stable_gesture, up \/ down,
                                         current_time, last_gesture_time)
            /\ Observe(current_gesture,
                       IF up \/ down THEN stable_gesture ELSE None,
                       QGT_buffer_size)
            /\ pc' = AfterKey(key)
            /\ pressed' = key
    /\ UNCHANGED <<script, gesture_cooldown, contrast, show_hands, show_ascii,
                   hand, cls, extVars>>

QGT_Iteration(steps, horizon) ==
    QGT_Frame(steps, horizon, QGT_Symbols, {"q", "other"})

\* Mutant: the last branch is an else, taken without a gesture too.
DWA_NextBrightness_else_reset(gesture, b) ==
    IF gesture = "brightness_up" THEN BrightnessUp(b)
    ELSE IF gesture = "brightness_down" THEN BrightnessDown(b)
    ELSE IF gesture = "toggle_hands" THEN b
    ELSE BrightnessDefault

\* The toggle_hands branch resetting the brightness as well.
DWA_NextBrightness_toggle_resets(gesture, b) ==
    IF gesture = "brightness_up" THEN BrightnessUp(b)
    ELSE IF gesture = "brightness_down" THEN BrightnessDown(b)
    ELSE IF gesture \in {"reset", "toggle_hands"} THEN BrightnessDefault
    ELSE b

\* self.brightness after the if gesture: ... elif chain of run().
DWA_NextBrightness(gesture, b) ==
    IF gesture = "brightness_up" THEN BrightnessUp(b)
    ELSE IF gesture = "brightness_down" THEN BrightnessDown(b)
    ELSE IF gesture = "reset" THEN BrightnessDefault
    ELSE b

(***************************************************************************)
(* dual_window_ascii.py, DualWindowASCII.run with detect_gestures: one     *)
(* iteration that reads a frame.  detect_gestures, which appends to the    *)
(* buffer, is called only when the cooldown is over.                       *)
(***************************************************************************)
DWA_Iteration(steps, horizon) ==
    /\ script = "dual_window_ascii"
    /\ pc = "loop"
    /\ \E dt \in steps, current_gesture \in DWA_Symbols, key \in {"q", "other"} :
        LET current_time == now + dt
            called == CooldownOver(current_time, last_gesture_time,
                                   gesture_cooldown)
            buf == IF called
                   THEN PushBuffer(gesture_buffer, current_gesture,
                                   DWA_buffer_size)
                   ELSE gesture_buffer
            gesture == IF called THEN StableGesture(buf, DWA_Consecutive)
                       ELSE None
        IN  /\ current_time <= StartTime + horizon
            /\ now' = current_time
            /\ gesture_buffer' = buf
            /\ last_gesture_time' = IF gesture # None THEN current_time
                                    ELSE last_gesture_time
            /\ brightness' = DWA_NextBrightness(gesture, brightness)
            /\ show_hands' = IF gesture = "toggle_hands" THEN ~show_hands
                             ELSE show_hands
            /\ contrast' = IF gesture = "reset" THEN ContrastDefault
                           ELSE contrast
            /\ Observe(current_gesture, gesture, DWA_buffer_size)
            /\ pc' = AfterKey(key)
            /\ pressed' = key
    /\ UNCHANGED <<script, gesture_cooldown, show_ascii, hand, cls, extVars>>

(***************************************************************************)
(* gesture_only.py, SimpleGestureControl.run: one iteration that reads a   *)
(* frame.  g is what the elif chain makes of the frame's hand.             *)
(***************************************************************************)
GO_Iteration(steps, horizon) ==
    /\ script = "gesture_only"
    /\ pc = "loop"
    /\ \E dt \in steps, g \in GO_Symbols, key \in {"q", "other"} :
        LET current_time == now + dt
            checked == CooldownOver(current_time, last_gesture_time, GO_Cooldown)
            up == checked /\ g = "thumb_up"
            down == checked /\ g = "thumb_down"
        IN  /\ current_time <= StartTime + horizon
            /\ now' = current_time
            /\ brightness' = IF up THEN BrightnessUp(brightness)
                             ELSE IF down THEN BrightnessDown(brightness)
                             ELSE brightness
            /\ last_gesture_time' = IF up \/ down THEN current_time
                                    ELSE last_gesture_time
            /\ Observe(g, IF up \/ down THEN g ELSE None, 1)
            /\ pc' = AfterKey(key)
            /\ pressed' = key
    /\ UNCHANGED <<script, gesture_cooldown, gesture_buffer, contrast,
                   show_hands, show_ascii, hand, cls, extVars>>

(***************************************************************************)
(* simple_realtime_ascii.py, SimpleRealtimeASCII.run: one iteration that   *)
(* reads a frame.                                                          *)
(***************************************************************************)
SRA_Iteration(steps, horizon) ==
    /\ script = "simple_realtime_ascii"
    /\ pc = "loop"
    /\ \E dt \in steps, g \in SRA_Symbols, key \in {"q", "a", "h", "other"} :
        LET current_time == now + dt
            checked == CooldownOver(current_time, last_gesture_time,
                                    SRA_Cooldown)
            gesture == IF checked THEN g ELSE None
        IN  /\ current_time <= StartTime + horizon
            /\ now' = current_time
            /\ last_gesture_time' = IF gesture # None THEN current_time
                                    ELSE last_gesture_time
            /\ brightness' =
                 IF gesture = "brightness_up" THEN BrightnessUp(brightness)
                 ELSE IF gesture = "brightness_down"
                      THEN BrightnessDown(brightness)
                 ELSE brightness
            /\ Observe(g, gesture, 1)
            /\ show_ascii' = IF key = "a" THEN ~show_ascii ELSE show_ascii
            /\ show_hands' = IF key = "h" THEN ~show_hands ELSE show_hands
            /\ pc' = AfterKey(key)
            /\ pressed' = key
    /\ UNCHANGED <<script, gesture_cooldown, gesture_buffer, contrast, hand,
                   cls, extVars>>

(***************************************************************************)
(* simple_ascii_converter.py, SimpleASCIIConverter.run: one iteration that *)
(* reads a frame.  The script has no gestures and reads no clock; its      *)
(* brightness events are keys.                                             *)
(***************************************************************************)
SAC_Iteration ==
    /\ script = "simple_ascii_converter"
    /\ pc = "loop"
    /\ \E key \in {"q", "+", "=", "-", "r", "other"} :
        /\ brightness' =
             IF key \in {"+", "="} THEN BrightnessUp(brightness)
             ELSE IF key = "-" THEN BrightnessDown(brightness)
             ELSE IF key = "r" THEN BrightnessDefault
             ELSE brightness
        /\ contrast' = IF key = "r" THEN ContrastDefault ELSE contrast
        /\ confirmed' = IF key \in {"+", "=", "-", "r"} THEN key ELSE None
        /\ prev_brightness' = brightness
        /\ pc' = AfterKey(key)
        /\ pressed' = key
    /\ UNCHANGED <<script, now, last_gesture_time, gesture_cooldown,
                   gesture_buffer, show_hands, show_ascii, history,
                   since_event, since_prev_event, hand, cls, extVars>>

\* ret, frame = cap.read(); if not ret: break
ReadFail ==
    /\ script \in {"quick_gesture_test", "dual_window_ascii", "gesture_only",
                   "simple_realtime_ascii", "simple_ascii_converter",
                   "debug_hand_detection"}
    /\ pc = "loop"
    /\ pc' = "read_failed"
    /\ failed_reads' = failed_reads + 1
    /\ UNCHANGED <<script, now, last_gesture_time, gesture_cooldown,
                   gesture_buffer, brightness, contrast, show_hands,
                   show_ascii, confirmed, history, since_event,
                   since_prev_event, prev_brightness, hand, cls, mirrorVars,
                   quantVars, adjVars, camera, rtVars, rtObsVars, lateVars,
                   pressed>>

(***************************************************************************)
(* realtime_ascii.py, main().  key is the first key of the if/elif chain   *)
(* that kb.is_pressed reports, None when it reports none; wk_esc tells     *)
(* whether cv2.waitKey(1) returned ESC.                                    *)
(***************************************************************************)
RT_Keys == {"q", "esc", "s", "space", "up", "down", "+", "=", "-", "r", "t",
            "h", None}

\* Mutant: the upper clamp is forgotten.
RT_CharSizeUp_unclamped(cs) == cs + 1

\* min(15, processor.char_size + 1)
RT_CharSizeUp(cs) == Min(RT_CharSizeMax, cs + 1)

\* max(2, processor.char_size - 1)
RT_CharSizeDown(cs) == Max(RT_CharSizeMin, cs - 1)

\* min(2.0, processor.brightness_level + 0.1)
RT_BrightnessUp(b) == Min(RT_BrightnessMax, b + RT_BrightnessStep)

\* max(0.3, processor.brightness_level - 0.1)
RT_BrightnessDown(b) == Max(RT_BrightnessMin, b - RT_BrightnessStep)

\* The four fields the T key changes together.
Theme ==
    [dark_mode |-> dark_mode, background_color |-> background_color,
     text_color |-> text_color, character_set |-> character_set]

\* The T handler forgetting to turn the ramp back in the light branch.
RT_ToggleTheme_light_keeps_ramp(th) ==
    IF ~th.dark_mode
    THEN [dark_mode |-> TRUE, background_color |-> Black,
          text_color |-> <<White, White, White>>,
          character_set |-> Reverse(th.character_set)]
    ELSE [dark_mode |-> FALSE, background_color |-> White,
          text_color |-> <<Black, Black, Black>>,
          character_set |-> th.character_set]

\* The T handler: dark_mode is flipped, then the branch of its new value
\* sets the colours and reverses the ramp.
RT_ToggleTheme(th) ==
    IF ~th.dark_mode
    THEN [dark_mode |-> TRUE, background_color |-> Black,
          text_color |-> <<White, White, White>>,
          character_set |-> Reverse(th.character_set)]
    ELSE [dark_mode |-> FALSE, background_color |-> White,
          text_color |-> <<Black, Black, Black>>,
          character_set |-> Reverse(th.character_set)]

\* The SPACE handler leaving the writer it released in the variable.
RT_WriterAfterSpace_not_cleared(rec) ==
    IF ~rec THEN "open" ELSE "released"

\* video_writer after the SPACE handler, rec being is_recording before it:
\* a new cv2.VideoWriter, or None after releasing the one there was.
RT_WriterAfterSpace(rec) ==
    IF ~rec THEN "open" ELSE None

\* An iteration whose camera.read() succeeded.  The frame is rendered with
\* the char_size of the head of the iteration, the keys are handled, and the
\* rendered frame is written if a recording is on by then.
RT_Iteration(keys) ==
    /\ script = "realtime_ascii"
    /\ pc = "loop"
    /\ \E key \in keys, wk_esc \in BOOLEAN :
        /\ last_key' = key
        /\ pressed' = key
        /\ is_recording' = IF key = "space" THEN ~is_recording
                            ELSE is_recording
        /\ video_writer' = IF key = "space"
                            THEN RT_WriterAfterSpace(is_recording)
                            ELSE video_writer
        /\ writer_size' = IF key = "space"
                           THEN IF ~is_recording THEN char_size ELSE 0
                           ELSE writer_size
        /\ char_size' = IF key = "up" THEN RT_CharSizeUp(char_size)
                         ELSE IF key = "down" THEN RT_CharSizeDown(char_size)
                         ELSE IF key = "r" THEN RT_CharSizeDefault
                         ELSE char_size
        /\ brightness_level' =
             IF key \in {"+", "="} THEN RT_BrightnessUp(brightness_level)
             ELSE IF key = "-" THEN RT_BrightnessDown(brightness_level)
             ELSE IF key = "r" THEN RT_BrightnessDefault
             ELSE brightness_level
        /\ font_scale' = IF key = "r" THEN RT_FontScaleDefault ELSE font_scale
        /\ prev_theme' = Theme
        /\ LET th == IF key = "t" THEN RT_ToggleTheme(Theme) ELSE Theme
           IN  /\ dark_mode' = th.dark_mode
               /\ background_color' = th.background_color
               /\ text_color' = th.text_color
               /\ character_set' = th.character_set
        /\ show_help' = IF key = "h" THEN ~show_help ELSE show_help
        /\ pc' = IF key \in {"q", "esc"} \/ wk_esc THEN "quit" ELSE "loop"
    /\ UNCHANGED <<script, now, last_gesture_time, gesture_cooldown,
                   gesture_buffer, brightness, contrast, show_hands,
                   show_ascii, confirmed, history, since_event,
                   since_prev_event, prev_brightness, hand, cls, mirrorVars,
                   quantVars, adjVars, sessionVars, loop_i, lateVars>>

\* What the user may be holding while no key is looked at.
RT_HeldKeys == {"q", None}

\* An iteration whose camera.read() failed: the if success: block, with
\* every key handler and the write to the recording, is skipped and the loop
\* goes on unless cv2.waitKey(1) returns ESC.  key is what the user holds.
RT_ReadFail(keys) ==
    /\ script = "realtime_ascii"
    /\ pc = "loop"
    /\ failed_reads < MaxFailedReads
    /\ failed_reads' = failed_reads + 1
    /\ last_key' = None
    /\ \E key \in keys : pressed' = key
    /\ prev_theme' = Theme
    /\ \E wk_esc \in BOOLEAN : pc' = IF wk_esc THEN "quit" ELSE "loop"
    /\ UNCHANGED <<script, now, last_gesture_time, gesture_cooldown,
                   gesture_buffer, brightness, contrast, show_hands,
                   show_ascii, confirmed, history, since_event,
                   since_prev_event, prev_brightness, hand, cls, mirrorVars,
                   quantVars, adjVars, camera, loop_i, char_size, font_scale,
                   brightness_level, dark_mode, background_color, text_color,
                   character_set, is_recording, show_help, video_writer,
                   writer_size, lateVars>>

(***************************************************************************)
(* simple_test.py: for i in range(50).                                     *)
(***************************************************************************)
\* Where the for loop is after the iteration with index idx.
ST_After(idx, key) ==
    IF key = "q" THEN "quit"
    ELSE IF idx + 1 >= ST_Frames THEN "exhausted"
    ELSE "loop"

\* An iteration whose cap.read() succeeded.
ST_Iteration ==
    /\ script = "simple_test"
    /\ pc = "loop"
    /\ \E key \in {"q", "other"} :
        /\ pc' = ST_After(loop_i, key)
        /\ pressed' = key
    /\ loop_i' = loop_i + 1
    /\ UNCHANGED <<script, now, last_gesture_time, gesture_cooldown,
                   gesture_buffer, brightness, contrast, show_hands,
                   show_ascii, confirmed, history, since_event,
                   since_prev_event, prev_brightness, hand, cls, mirrorVars,
                   quantVars, adjVars, sessionVars, char_size, font_scale,
                   brightness_level, dark_mode, background_color, text_color,
                   character_set, is_recording, show_help, video_writer,
                   last_key, rtObsVars, lateVars>>

\* if not ret: continue
ST_ReadFail ==
    /\ script = "simple_test"
    /\ pc = "loop"
    /\ pc' = ST_After(loop_i, "other")
    /\ \E key \in {"q", "other"} : pressed' = key
    /\ loop_i' = loop_i + 1
    /\ failed_reads' = failed_reads + 1
    /\ UNCHANGED <<script, now, last_gesture_time, gesture_cooldown,
                   gesture_buffer, brightness, contrast, show_hands,
                   show_ascii, confirmed, history, since_event,
                   since_prev_event, prev_brightness, hand, cls, mirrorVars,
                   quantVars, adjVars, camera, char_size, font_scale,
                   brightness_level, dark_mode, background_color, text_color,
                   character_set, is_recording, show_help, video_writer,
                   last_key, rtObsVars, lateVars>>

(***************************************************************************)
(* After the loop of any script: cap.release() (realtime_ascii also        *)
(* releases a video writer that is still open).                            *)
(***************************************************************************)
Cleanup ==
    /\ pc \in {"quit", "read_failed", "exhausted"}
    /\ pc' = "done"
    /\ camera' = "released"
    /\ video_writer' = IF video_writer = "open" THEN "released"
                        ELSE video_writer
    /\ UNCHANGED <<script, now, last_gesture_time, gesture_cooldown,
                   gesture_buffer, brightness, contrast, show_hands,
                   show_ascii, confirmed, history, since_event,
                   since_prev_event, prev_brightness, hand, cls, mirrorVars,
                   quantVars, adjVars, failed_reads, loop_i, char_size,
                   font_scale, brightness_level, dark_mode, background_color,
                   text_color, character_set, is_recording, show_help,
                   last_key, rtObsVars, lateVars, pressed>>

(***************************************************************************)
(* The state after construction and at the head of run().                  *)
(***************************************************************************)
LoopInit(s, cooldown) ==
    /\ script = s
    /\ pc = "loop"
    /\ now = StartTime
    /\ last_gesture_time = 0
    /\ gesture_cooldown = cooldown
    /\ gesture_buffer = <<>>
    /\ brightness = BrightnessDefault
    /\ contrast = ContrastDefault
    /\ show_hands = TRUE
    /\ show_ascii = TRUE
    /\ confirmed = None
    /\ history = <<>>
    /\ since_event = FrameCap
    /\ since_prev_event = FrameCap
    /\ prev_brightness = BrightnessDefault

(***************************************************************************)
(* The brightness adjustment of a grey level p before it is quantized.     *)
(* b is a setting [tenths, err], c the contrast in tenths.                 *)
(***************************************************************************)
\* The settings of the allowed range, exact or carrying a rounding error.
BrightnessSettings ==
    [tenths : BrightnessMin..BrightnessMax, err : {0 - 1, 0, 1}]

\* The order of the floats the settings stand for.
SettingLeq(a, b) ==
    \/ a.tenths < b.tenths
    \/ a.tenths = b.tenths /\ a.err <= b.err

\* cvRound(n / d) for a quotient whose float carries an error of sign err:
\* to the nearest integer; a tie goes where the error pushes it, and to
\* the even neighbour when the quotient is exact.
RoundScaled(n, d, err) ==
    LET q == n \div d
        r == n % d
    IN  IF 2 * r < d THEN q
        ELSE IF 2 * r > d THEN q + 1
        ELSE IF err < 0 THEN q
        ELSE IF err > 0 THEN q + 1
        ELSE IF q % 2 = 0 THEN q ELSE q + 1

\* saturate_cast<uchar> of a value that is not negative
Saturate(v) == Min(ByteMax, v)

\* cv2.convertScaleAbs(gray, alpha=self.contrast, beta=self.brightness * 50)
SAC_adjust(p, b, c) ==
    Saturate(RoundScaled(p * c + SAC_BetaScale * b.tenths, 10, b.err))

\* cv2.convertScaleAbs(gray, alpha=self.brightness * self.contrast, beta=0)
DWA_adjust(p, b, c) == Saturate(RoundScaled(p * b.tenths * c, 100, b.err))

\* cv2.convertScaleAbs(gray, alpha=self.brightness, beta=0)
SRA_adjust(p, b) == Saturate(RoundScaled(p * b.tenths, 10, b.err))

\* The float product p * brightness_level truncated by astype(np.uint8):
\* the integer part of the exact product, one less when the exact product
\* is an integer and the float falls short of it.
TruncScaled(p, b) ==
    LET n == p * b.tenths
    IN  IF n % 10 = 0 /\ n > 0 /\ b.err < 0 THEN (n \div 10) - 1
        ELSE n \div 10

\* Mutant: np.clip is left out, astype(np.uint8) wraps.
RT_adjust_no_clip(p, b) == TruncScaled(p, b) % (ByteMax + 1)

\* np.clip(brightness_array * self.brightness_level, 0, 255).astype(np.uint8)
RT_adjust(p, b) == Min(ByteMax, TruncScaled(p, b))

\* Nothing adjusted yet.
Unadjusted ==
    [sac1 |-> 0 - 1, sac2 |-> 0 - 1, dwa1 |-> 0 - 1, dwa2 |-> 0 - 1,
     sra1 |-> 0 - 1, sra2 |-> 0 - 1, rt1 |-> 0 - 1, rt2 |-> 0 - 1]

\* Nothing has been looked at a second time.
MirrorInit ==
    /\ hand_x = OriginX
    /\ cls_mirror = Unclassified

\* No grey level has been quantized or adjusted.
QuantInit ==
    /\ pixel_value = 0
    /\ other_pixel = 0
    /\ quantized = [pta |-> Unquantized, rt |-> Unquantized]

AdjustInit ==
    /\ setting1 = DefaultSetting
    /\ setting2 = DefaultSetting
    /\ adjusted = Unadjusted

\* cap = cv2.VideoCapture(0), opened.
SessionInit ==
    /\ camera = "open"
    /\ failed_reads = 0

\* ASCIIVideoProcessor.__init__ and main() before its loop, in the theme
\* dm (__init__ sets the light one, dm = FALSE).
RT_InitWith(dm) ==
    /\ loop_i = 0
    /\ char_size = RT_CharSizeDefault
    /\ font_scale = RT_FontScaleDefault
    /\ brightness_level = RT_BrightnessDefault
    /\ dark_mode = dm
    /\ background_color = IF dm THEN Black ELSE White
    /\ text_color = IF dm THEN <<White, White, White>>
                     ELSE <<Black, Black, Black>>
    /\ character_set = IF dm THEN Reverse(RT_character_set)
                        ELSE RT_character_set
    /\ is_recording = FALSE
    /\ show_help = FALSE
    /\ video_writer = None
    /\ last_key = None
    /\ prev_theme = Theme
    /\ writer_size = 0
    /\ pressed = None

RT_Init == RT_InitWith(FALSE)

\* No gesture is being held.
HeldInit == held = None

\* The canvas before render_ascii_image has made one.
Unrendered == [height |-> 0, width |-> 0, calls |-> <<>>]

\* No frame has been handed to render_ascii_image.
RenderInit ==
    /\ frame_width = 0
    /\ frame_height = 0
    /\ pixel_data = <<>>
    /\ ascii_text = <<>>
    /\ canvas = Unrendered

\* run() before its loop.
HDD_Init ==
    /\ frame_count = 0
    /\ detection_count = 0

LateInit == HeldInit /\ RenderInit /\ HDD_Init

ExtInit ==
    /\ MirrorInit /\ QuantInit /\ AdjustInit /\ SessionInit /\ RT_Init
    /\ LateInit

Scripts == {"quick_gesture_test", "dual_window_ascii", "gesture_only",
            "simple_realtime_ascii", "simple_ascii_converter"}

\* The cooldown each script's loop compares against.
CooldownOf(s) ==
    CASE s = "quick_gesture_test" -> QGT_Cooldown
      [] s = "dual_window_ascii" -> DWA_gesture_cooldown
      [] s = "gesture_only" -> GO_Cooldown
      [] s = "simple_realtime_ascii" -> SRA_Cooldown
      [] OTHER -> 0

Init ==
    /\ \E s \in Scripts : LoopInit(s, CooldownOf(s))
    /\ hand = NoHand
    /\ cls = Unclassified
    /\ ExtInit

Next ==
    \/ QGT_Iteration(TimeSteps, Horizon)
    \/ DWA_Iteration(TimeSteps, Horizon)
    \/ GO_Iteration(TimeSteps, Horizon)
    \/ SRA_Iteration(TimeSteps, Horizon)
    \/ SAC_Iteration
    \/ ReadFail

Spec == Init /\ [][Next]_vars

\* The same scripts, run long enough for brightness to reach both clamps.
NextLong ==
    \/ QGT_Iteration(LongSteps, LongHorizon)
    \/ DWA_Iteration(LongSteps, LongHorizon)
    \/ GO_Iteration(LongSteps, LongHorizon)
    \/ SRA_Iteration(LongSteps, LongHorizon)
    \/ SAC_Iteration
    \/ ReadFail

SpecLong == Init /\ [][NextLong]_vars

(***************************************************************************)
(* realtime_ascii on its own, from main()'s loop to its cleanup.           *)
(***************************************************************************)
InitRT ==
    /\ LoopInit("realtime_ascii", 0)
    /\ hand = NoHand
    /\ cls = Unclassified
    /\ ExtInit

NextRT == RT_Iteration(RT_Keys) \/ RT_ReadFail(RT_HeldKeys) \/ Cleanup

SpecRT == InitRT /\ [][NextRT]_vars

(***************************************************************************)
(* Whole sessions of every script with a camera loop, from the head of the *)
(* loop to the cleanup after it.                                           *)
(***************************************************************************)
SessionScripts == Scripts \cup {"realtime_ascii", "simple_test"}

InitSession ==
    /\ \E s \in SessionScripts : LoopInit(s, CooldownOf(s))
    /\ hand = NoHand
    /\ cls = Unclassified
    /\ ExtInit

NextSession ==
    \/ QGT_Iteration(TimeSteps, Horizon)
    \/ DWA_Iteration(TimeSteps, Horizon)
    \/ GO_Iteration(TimeSteps, Horizon)
    \/ SRA_Iteration(TimeSteps, Horizon)
    \/ SAC_Iteration
    \/ ReadFail
    \/ RT_Iteration(RT_Keys)
    \/ RT_ReadFail(RT_HeldKeys)
    \/ ST_Iteration
    \/ ST_ReadFail
    \/ Cleanup

SpecSession == InitSession /\ [][NextSession]_vars

(***************************************************************************)
(* quick_gesture_test with a gesture that is held: after some frames of    *)
(* any kind the user shows one gesture on every frame, the clock advances  *)
(* with every frame and the loop keeps running.                            *)
(***************************************************************************)
HeldGestures == {"thumbs_up", "thumbs_down"}

\* Clock advance between two frames of the held gesture: one tick, or just
\* more than a cooldown.
HeldSteps == {1, QGT_Cooldown + 1}

\* Events that take the brightness from one clamp to the other.
HeldFires == (BrightnessMax - BrightnessMin) \div BrightnessStep

\* Clock span that lets the buffer fill and every one of these events
\* happen, each at most two cooldowns and a tick after the one before.
HeldSpan == (QGT_Consecutive + HeldFires) * (2 * QGT_Cooldown + 1)

InitHeld ==
    /\ LoopInit("quick_gesture_test", QGT_Cooldown)
    /\ hand = NoHand
    /\ cls = Unclassified
    /\ ExtInit

\* A frame before the gesture is held.
QGT_Prefix ==
    /\ held = None
    /\ QGT_Iteration(TimeSteps, Horizon)

\* The user starts holding a gesture.
StartHold ==
    /\ script = "quick_gesture_test"
    /\ pc = "loop"
    /\ held = None
    /\ \E g \in HeldGestures : held' = g
    /\ UNCHANGED <<loopVars, hand, cls, mirrorVars, quantVars, adjVars,
                   sessionVars, rtVars, rtObsVars, renderVars, hddVars,
                   pressed>>

\* A frame of the held gesture.
QGT_HeldIteration ==
    /\ held # None
    /\ QGT_Frame(HeldSteps, Horizon + HeldSpan, {held}, {"other"})

NextHeld == QGT_Prefix \/ StartHold \/ QGT_HeldIteration

SpecHeld == InitHeld /\ [][NextHeld]_vars /\ WF_vars(QGT_HeldIteration)

(***************************************************************************)
(* debug_hand_detection.py, HandDetectionDebug.run: the loop (its failed   *)
(* read is ReadFail), the cleanup and the final statistics.                *)
(***************************************************************************)
\* How many frames of the camera are followed.
MaxFrames == 8

\* An iteration that reads a frame; hands_detected tells whether MediaPipe
\* found a hand in it.
HDD_Iteration ==
    /\ script = "debug_hand_detection"
    /\ pc = "loop"
    /\ frame_count < MaxFrames
    /\ frame_count' = frame_count + 1
    /\ \E hands_detected \in BOOLEAN :
         detection_count' = IF hands_detected THEN detection_count + 1
                            ELSE detection_count
    /\ \E key \in {"q", "other"} :
        /\ pc' = AfterKey(key)
        /\ pressed' = key
    /\ UNCHANGED <<script, now, last_gesture_time, gesture_cooldown,
                   gesture_buffer, brightness, contrast, show_hands,
                   show_ascii, confirmed, history, since_event,
                   since_prev_event, prev_brightness, hand, cls, mirrorVars,
                   quantVars, adjVars, sessionVars, rtVars, rtObsVars, held,
                   renderVars>>

\* The four prints after the cleanup; the last one divides detection_count
\* by frame_count.
HDD_FinalStats ==
    /\ script = "debug_hand_detection"
    /\ pc = "done"
    /\ pc' = IF frame_count = 0 THEN "ZeroDivisionError" ELSE "finished"
    /\ UNCHANGED <<script, now, last_gesture_time, gesture_cooldown,
                   gesture_buffer, brightness, contrast, show_hands,
                   show_ascii, confirmed, history, since_event,
                   since_prev_event, prev_brightness, hand, cls, extVars,
                   pressed>>

InitHDD ==
    /\ LoopInit("debug_hand_detection", 0)
    /\ hand = NoHand
    /\ cls = Unclassified
    /\ ExtInit

NextHDD == HDD_Iteration \/ ReadFail \/ Cleanup \/ HDD_FinalStats

SpecHDD == InitHDD /\ [][NextHDD]_vars

(***************************************************************************)
(* realtime_ascii's convert_to_ascii and render_ascii_image on the glyphs  *)
(* of one frame.  A string is the sequence of its characters; the canvas   *)
(* is its size and the cv2.putText calls made on it, in order.             *)
(***************************************************************************)
\* Widest and tallest frame drawn, in characters.
MaxW == 2

MaxH == 3

Newline == "\n"

\* The glyphs a frame is made of.
RenderGlyphs == {RT_character_set[1], RT_character_set[2]}

\* Python's s[a:b] for 0 <= a.
Slice(s, a, b) == SubSeq(s, a + 1, Min(b, Len(s)))

\* list(range(0, stop, step))
RangeFromZero(stop, step) ==
    [k \in 1..((stop + step - 1) \div step) |-> (k - 1) * step]

RECURSIVE JoinLines(_, _)
\* sep.join(lines)
JoinLines(lines, sep) ==
    IF lines = <<>> THEN <<>>
    ELSE IF Len(lines) = 1 THEN lines[1]
    ELSE lines[1] \o <<sep>> \o JoinLines(Tail(lines), sep)

\* "\n".join([pixel_data[idx:(idx + frame_width)] for idx in range(...)])
RT_ascii_text(pd, w) ==
    LET starts == RangeFromZero(Len(pd), w)
    IN  JoinLines([k \in 1..Len(starts) |->
                     Slice(pd, starts[k], starts[k] + w)], Newline)

\* The putText calls of the inner loop for current_line at y_position.
RT_draw_line(current_line, y_position, cs) ==
    [c \in 1..Len(current_line) |->
       [character |-> current_line[c], x |-> (c - 1) * cs, y |-> y_position]]

RECURSIVE RT_render_loop(_, _, _, _, _, _, _)
\* for i in range(0, len(ascii_string), frame_width + 1), from its k-th
\* value on: current_line = ascii_string[string_index:i], drawn at
\* y_position, then y_position += char_size and string_index = i.
RT_render_loop(s, cs, idxs, k, string_index, y_position, calls) ==
    IF k > Len(idxs) THEN calls
    ELSE RT_render_loop(
             s, cs, idxs, k + 1, idxs[k], y_position + cs,
             calls \o RT_draw_line(Slice(s, string_index, idxs[k]),
                                   y_position, cs))

\* render_ascii_image(ascii_string)
RT_render_ascii_image(s, w, h, cs) ==
    [height |-> h * cs, width |-> w * cs,
     calls |-> RT_render_loop(s, cs, RangeFromZero(Len(s), w + 1), 1, 0, 0,
                              <<>>)]

RenderSpecInit ==
    /\ LoopInit("renderer", 0)
    /\ hand = NoHand
    /\ cls = Unclassified
    /\ MirrorInit /\ QuantInit /\ AdjustInit /\ SessionInit /\ RT_Init
    /\ HeldInit /\ HDD_Init
    /\ frame_width \in 1..MaxW
    /\ frame_height \in 1..MaxH
    /\ pixel_data \in [1..(frame_width * frame_height) -> RenderGlyphs]
    /\ ascii_text = <<>>
    /\ canvas = Unrendered

\* ascii_text = processor.convert_to_ascii(...)
ConvertFrame ==
    /\ script = "renderer"
    /\ ascii_text = <<>>
    /\ ascii_text' = RT_ascii_text(pixel_data, frame_width)
    /\ UNCHANGED <<loopVars, hand, cls, mirrorVars, quantVars, adjVars,
                   sessionVars, rtVars, rtObsVars, held, hddVars, pressed,
                   frame_width, frame_height, pixel_data, canvas>>

\* ascii_image = processor.render_ascii_image(ascii_text)
RenderImage ==
    /\ script = "renderer"
    /\ ascii_text # <<>>
    /\ canvas = Unrendered
    /\ canvas' = RT_render_ascii_image(ascii_text, frame_width, frame_height,
                                       char_size)
    /\ UNCHANGED <<loopVars, hand, cls, mirrorVars, quantVars, adjVars,
                   sessionVars, rtVars, rtObsVars, held, hddVars, pressed,
                   frame_width, frame_height, pixel_data, ascii_text>>

RenderNext == ConvertFrame \/ RenderImage

RenderSpec == RenderSpecInit /\ [][RenderNext]_vars

(***************************************************************************)
(* The classifiers on their own: a hand is drawn, then classified.         *)
(***************************************************************************)
ClassInit ==
    /\ LoopInit("classifiers", 0)
    /\ hand \in Hands
    /\ cls = Unclassified
    /\ ExtInit

ClassifyHand ==
    /\ script = "classifiers"
    /\ cls = Unclassified
    /\ cls' = Classify(hand)
    /\ UNCHANGED <<loopVars, hand, extVars, pressed>>

ClassNext == ClassifyHand

ClassSpec == ClassInit /\ [][ClassNext]_vars

(***************************************************************************)
(* The same hand seen with other x coordinates (a mirrored frame, a hand   *)
(* moved sideways): every keypoint keeps its y, and the classifiers are    *)
(* applied to the new landmarks.                                           *)
(***************************************************************************)
MirrorHand ==
    /\ script = "classifiers"
    /\ cls # Unclassified
    /\ cls_mirror = Unclassified
    /\ \E xs \in XCoords :
        /\ hand_x' = xs
        /\ cls_mirror' = Classify([hand EXCEPT !.x = xs])
    /\ UNCHANGED <<loopVars, hand, cls, quantVars, adjVars, sessionVars,
                   rtVars, rtObsVars, lateVars, pressed>>

MirrorNext == ClassifyHand \/ MirrorHand

MirrorSpec == ClassInit /\ [][MirrorNext]_vars


(***************************************************************************)
(* The quantizers on their own: two grey levels are drawn, then mapped to  *)
(* glyphs by pixel_to_ascii (dual_window_ascii, simple_ascii_converter,    *)
(* simple_realtime_ascii, test_brightness) and by realtime_ascii's         *)
(* convert_to_ascii in the theme drawn.                                    *)
(***************************************************************************)
QuantSpecInit ==
    /\ LoopInit("quantizers", 0)
    /\ hand = NoHand
    /\ cls = Unclassified
    /\ MirrorInit /\ AdjustInit /\ SessionInit /\ LateInit
    /\ \E dm \in BOOLEAN : RT_InitWith(dm)
    /\ pixel_value \in 0..ByteMax
    /\ other_pixel \in pixel_value..ByteMax
    /\ quantized = [pta |-> Unquantized, rt |-> Unquantized]

PixelToAscii ==
    /\ script = "quantizers"
    /\ quantized.pta = Unquantized
    /\ quantized' =
         [quantized EXCEPT !.pta =
             [index       |-> PixelIndex(pixel_value, ascii_chars),
              glyph       |-> pixel_to_ascii(pixel_value),
              other_index |-> PixelIndex(other_pixel, ascii_chars),
              other_glyph |-> pixel_to_ascii(other_pixel)]]
    /\ UNCHANGED <<loopVars, hand, cls, mirrorVars, pixel_value, other_pixel,
                   adjVars, sessionVars, rtVars, rtObsVars, lateVars,
                   pressed>>

ConvertToAscii ==
    /\ script = "quantizers"
    /\ quantized.rt = Unquantized
    /\ quantized' =
         [quantized EXCEPT !.rt =
             [index       |-> RT_index(pixel_value),
              glyph       |-> RT_glyph(character_set, pixel_value),
              other_index |-> RT_index(other_pixel),
              other_glyph |-> RT_glyph(character_set, other_pixel)]]
    /\ UNCHANGED <<loopVars, hand, cls, mirrorVars, pixel_value, other_pixel,
                   adjVars, sessionVars, rtVars, rtObsVars, lateVars,
                   pressed>>

QuantNext == PixelToAscii \/ ConvertToAscii

QuantSpec == QuantSpecInit /\ [][QuantNext]_vars

(***************************************************************************)
(* The brightness adjustments on their own: a grey level and two settings  *)
(* of the allowed range are drawn, the contrast is the default, and the    *)
(* grey level is adjusted under both settings, by cv2.convertScaleAbs as   *)
(* the three scripts call it and by realtime_ascii's clipped product.      *)
(***************************************************************************)
AdjustSpecInit ==
    /\ LoopInit("adjustments", 0)
    /\ hand = NoHand
    /\ cls = Unclassified
    /\ MirrorInit /\ SessionInit /\ RT_Init /\ LateInit
    /\ pixel_value \in 0..ByteMax
    /\ other_pixel = pixel_value
    /\ quantized = [pta |-> Unquantized, rt |-> Unquantized]
    /\ setting1 \in BrightnessSettings
    /\ setting2 \in {b \in BrightnessSettings : SettingLeq(setting1, b)}
    /\ adjusted = Unadjusted

ConvertScaleAbs ==
    /\ script = "adjustments"
    /\ adjusted.dwa1 = Unadjusted.dwa1
    /\ adjusted' =
         [adjusted EXCEPT
            !.sac1 = SAC_adjust(pixel_value, setting1, contrast),
            !.sac2 = SAC_adjust(pixel_value, setting2, contrast),
            !.dwa1 = DWA_adjust(pixel_value, setting1, contrast),
            !.dwa2 = DWA_adjust(pixel_value, setting2, contrast),
            !.sra1 = SRA_adjust(pixel_value, setting1),
            !.sra2 = SRA_adjust(pixel_value, setting2)]
    /\ UNCHANGED <<loopVars, hand, cls, mirrorVars, quantVars, setting1,
                   setting2, sessionVars, rtVars, rtObsVars, lateVars,
                   pressed>>

\* realtime_ascii's brightness_level never goes below 0.3.
ClipScale ==
    /\ script = "adjustments"
    /\ adjusted.rt1 = Unadjusted.rt1
    /\ setting1.tenths >= RT_BrightnessMin
    /\ adjusted' =
         [adjusted EXCEPT
            !.rt1 = RT_adjust(pixel_value, setting1),
            !.rt2 = RT_adjust(pixel_value, setting2)]
    /\ UNCHANGED <<loopVars, hand, cls, mirrorVars, quantVars, setting1,
                   setting2, sessionVars, rtVars, rtObsVars, lateVars,
                   pressed>>

AdjustNext == ConvertScaleAbs \/ ClipScale

AdjustSpec == AdjustSpecInit /\ [][AdjustNext]_vars

(***************************************************************************)
(* The debounce scenario: dual_window_ascii's loop (buffer_size 3, two     *)
(* consecutive frames) with gesture_cooldown set to 1.0 s instead of 0.5 s.*)
(***************************************************************************)
\* The scenario's D = 1.0 s, the cooldown quick_gesture_test uses.
ScenarioCooldown == QGT_Cooldown

ScenarioSteps == {0, 1, 3, 4, 7}

ScenarioInit ==
    /\ LoopInit("dual_window_ascii", ScenarioCooldown)
    /\ hand = NoHand
    /\ cls = Unclassified
    /\ ExtInit

ScenarioNext ==
    \/ DWA_Iteration(ScenarioSteps, Horizon)
    \/ ReadFail

SpecScenario == ScenarioInit /\ [][ScenarioNext]_vars

(***************************************************************************)
(* Vocabulary of the properties.                                           *)
(***************************************************************************)
Buffered == script \in {"quick_gesture_test", "dual_window_ascii"}

\* K: the capacity of the script's gesture buffer.
BufferSizeOf(s) ==
    CASE s = "quick_gesture_test" -> QGT_buffer_size
      [] s = "dual_window_ascii" -> DWA_buffer_size
      [] OTHER -> 0

\* C: how many newest entries the script asks to agree.
ConsecutiveOf(s) ==
    CASE s = "quick_gesture_test" -> QGT_Consecutive
      [] s = "dual_window_ascii" -> DWA_Consecutive
      [] OTHER -> 0

\* The newest n entries of seq exist and all equal x.
NewestAll(seq, n, x) ==
    /\ Len(seq) >= n
    /\ \A i \in (Len(seq) - n + 1)..Len(seq) : seq[i] = x

GestureSymbols ==
    {"thumbs_up", "thumbs_down", "brightness_up", "brightness_down",
     "toggle_hands", "reset", "thumb_up", "thumb_down"}

Increments == {"thumbs_up", "brightness_up", "thumb_up", "+", "="}

Decrements == {"thumbs_down", "brightness_down", "thumb_down", "-"}

\* The step read a camera frame and handled it (it is no failed read).
FrameStep == pc = "loop" /\ pc' # "read_failed"

(***************************************************************************)
(* C1.  In every gesture-driven loop two successive confirmed gesture      *)
(* events (the iterations that assign last_gesture_time) are never closer  *)
(* together than the script's cooldown, whatever their symbols.            *)
(***************************************************************************)
C1_EventsCooldownApart ==
    [][(last_gesture_time # 0 /\ last_gesture_time' # last_gesture_time)
         => last_gesture_time' - last_gesture_time >= CooldownOf(script)]_vars

\* A second event right after a first, in quick_gesture_test.
C1_Witness ==
    /\ script = "quick_gesture_test"
    /\ confirmed # None
    /\ since_prev_event = 1
    /\ last_gesture_time = now

(***************************************************************************)
(* C2.  A gesture is confirmed on a frame only if the newest C entries of  *)
(* the gesture buffer are all that same non-None symbol (C = 3 in          *)
(* quick_gesture_test, C = 2 in dual_window_ascii); nothing is confirmed   *)
(* with fewer than C entries or with a newest entry None.                  *)
(***************************************************************************)
C2_ConfirmedOnlyIfStable ==
    (Buffered /\ confirmed # None)
        => /\ confirmed \in GestureSymbols
           /\ NewestAll(gesture_buffer, ConsecutiveOf(script), confirmed)

C2_Witness ==
    /\ script = "quick_gesture_test"
    /\ confirmed = "thumbs_down"
    /\ gesture_buffer = <<None, "thumbs_down", "thumbs_down", "thumbs_down">>

(***************************************************************************)
(* C3 (as claimed).  Every processed camera frame appends its symbol to    *)
(* the gesture buffer exactly once, inside the cooldown as well as outside *)
(* it: the buffer is the symbols of the last min(K, n) camera frames.      *)
(***************************************************************************)
C3_BufferIsFrameHistory == Buffered => gesture_buffer = history

(***************************************************************************)
(* C4 (as claimed).  Whenever the last C camera frames carried the same    *)
(* non-None symbol, exactly one confirmed event fired during those C       *)
(* frames: at least one, and the event before it lies outside them.        *)
(***************************************************************************)
C4_ExactlyOnePerRun ==
    (Buffered /\ \E x \in GestureSymbols :
                    NewestAll(history, ConsecutiveOf(script), x))
        => /\ since_event < ConsecutiveOf(script)
           /\ since_prev_event >= ConsecutiveOf(script)

(***************************************************************************)
(* C4 (amended).  From a fresh debouncer, C identical non-None symbols on  *)
(* the first C frames of the run produce exactly one confirmed event, on   *)
(* the C-th frame.                                                         *)
(***************************************************************************)
C4_FreshRunFiresOnce ==
    \A x \in GestureSymbols :
        (Buffered /\ Len(history) = ConsecutiveOf(script)
                  /\ NewestAll(history, ConsecutiveOf(script), x))
            => /\ confirmed = x
               /\ since_event = 0
               /\ since_prev_event >= ConsecutiveOf(script)
               /\ last_gesture_time = now

C4_Witness ==
    /\ script = "dual_window_ascii"
    /\ history = <<"toggle_hands", "toggle_hands">>
    /\ confirmed = "toggle_hands"
    /\ ~show_hands

(***************************************************************************)
(* C5.  Debounce scenario (K = 3, C = 2, D = 1.0 s, fresh debouncer, the   *)
(* first frame at t = 0): ThumbsUp, ThumbsUp, None at t = 0, 0.1, 0.2      *)
(* confirm exactly one ThumbsUp, at t = 0.1; a stable ThumbsUp at t = 0.5  *)
(* does not fire; a stable ThumbsUp at t = 1.2 fires again.                *)
(***************************************************************************)
At(k) == StartTime + k

C6_BufferBounded ==
    /\ Len(gesture_buffer) <= BufferSizeOf(script)
    /\ [][/\ Len(gesture_buffer') <= BufferSizeOf(script)
          /\ (gesture_buffer' # gesture_buffer
                /\ Len(gesture_buffer) = BufferSizeOf(script))
               => gesture_buffer' =
                    Append(Tail(gesture_buffer), history'[Len(history')])
         ]_vars

\* A full buffer after more than K appends: both events need two appends.
C6_Witness ==
    /\ script = "dual_window_ascii"
    /\ gesture_buffer = <<"brightness_up", "toggle_hands", "toggle_hands">>
    /\ brightness = BrightnessDefault + BrightnessStep
    /\ ~show_hands

(***************************************************************************)
(* C7 (as claimed).  A confirmed gesture event fires only when every entry *)
(* the buffer holds (the full window, up to K entries) is the same         *)
(* non-None symbol; [None, X, X] must not confirm X.                       *)
(***************************************************************************)
C7_FullWindowAgrees ==
    (Buffered /\ confirmed # None)
        => \A i \in 1..Len(gesture_buffer) : gesture_buffer[i] = confirmed

(***************************************************************************)
(* C7 (amended).  An iteration whose cooldown is over confirms symbol x    *)
(* exactly when the newest C entries of the buffer are all x, non-None;    *)
(* the older entries of the window do not matter.                          *)
(***************************************************************************)
C7_NewestEntriesDecide ==
    [][(Buffered /\ FrameStep
          /\ now' - last_gesture_time > CooldownOf(script))
         => \A x \in GestureSymbols :
               confirmed' = x
                 <=> NewestAll(gesture_buffer', ConsecutiveOf(script), x)
       ]_vars

\* dual_window_ascii confirms X on the buffer [None, X, X].
C7_Witness ==
    /\ script = "dual_window_ascii"
    /\ gesture_buffer = <<None, "brightness_up", "brightness_up">>
    /\ confirmed = "brightness_up"

(***************************************************************************)
(* C8.  Starting from 1.0, brightness stays within [0.2, 2.0] after any    *)
(* sequence of increment, decrement and reset events: an increment at 2.0  *)
(* leaves it at 2.0 and a decrement at 0.2 leaves it at 0.2.               *)
(***************************************************************************)
C8_BrightnessClamped ==
    /\ brightness >= BrightnessMin
    /\ brightness <= BrightnessMax
    /\ (confirmed \in Increments /\ prev_brightness = BrightnessMax)
          => brightness = BrightnessMax
    /\ (confirmed \in Decrements /\ prev_brightness = BrightnessMin)
          => brightness = BrightnessMin

\* quick_gesture_test confirms a thumbs-up at brightness 2.0.
C8_Witness ==
    /\ script = "quick_gesture_test"
    /\ confirmed = "thumbs_up"
    /\ prev_brightness = BrightnessMax
    /\ brightness = BrightnessMax

(***************************************************************************)
(* C9.  Every hand whose thumb tip is above its IP joint, whose IP joint   *)
(* is above its MCP joint and whose four other fingertips are below their  *)
(* PIP joints is classified thumbs-up by debug_gestures, by                *)
(* dual_window_ascii and by quick_gesture_test.                            *)
(***************************************************************************)
OtherFingersBelowPip(h) ==
    /\ h.index_tip > h.index_pip
    /\ h.middle_tip > h.middle_pip
    /\ h.ring_tip > h.ring_pip
    /\ h.pinky_tip > h.pinky_pip

ThumbsUpHand(h) ==
    /\ h.thumb_tip < h.thumb_ip
    /\ h.thumb_ip < h.thumb_mcp
    /\ OtherFingersBelowPip(h)

C9_ThumbsUpClassified ==
    (cls # Unclassified /\ ThumbsUpHand(hand))
        => /\ cls.dg = "THUMBS UP"
           /\ cls.dwa = "brightness_up"
           /\ cls.qgt = "thumbs_up"

C9_Witness ==
    /\ cls # Unclassified
    /\ ThumbsUpHand(hand)
    /\ hand.wrist < hand.thumb_tip
    /\ cls.qgt = "thumbs_up"

(***************************************************************************)
(* C10 (as claimed).  In dual_window_ascii a hand that satisfies the       *)
(* thumbs-down rule (thumb tip below its IP and MCP joints, the four other *)
(* fingertips below their PIP joints) is classified brightness_down.       *)
(***************************************************************************)
ThumbsDownHand(h) ==
    /\ h.thumb_tip > h.thumb_ip
    /\ h.thumb_tip > h.thumb_mcp
    /\ OtherFingersBelowPip(h)

C10_ThumbsDownClassified ==
    (cls # Unclassified /\ ThumbsDownHand(hand))
        => cls.dwa = "brightness_down"

(***************************************************************************)
(* The spec's ruleset (section 4.1), in its priority order, written with   *)
(* debug_gestures' symbols.                                                *)
(***************************************************************************)
ThumbExtendedUp(h) == h.thumb_tip < h.thumb_ip /\ h.thumb_tip < h.thumb_mcp

ThumbExtendedDown(h) == h.thumb_tip > h.thumb_ip /\ h.thumb_tip > h.thumb_mcp

FourNotExtendedUp(h) ==
    /\ ~(h.index_tip < h.index_pip)
    /\ ~(h.middle_tip < h.middle_pip)
    /\ ~(h.ring_tip < h.ring_pip)
    /\ ~(h.pinky_tip < h.pinky_pip)

PeaceFingers(h) ==
    /\ h.index_tip < h.index_pip
    /\ h.middle_tip < h.middle_pip
    /\ ~(h.ring_tip < h.ring_pip)
    /\ ~(h.pinky_tip < h.pinky_pip)

RulesetSymbol(h) ==
    IF ThumbExtendedUp(h) /\ FourNotExtendedUp(h) THEN "THUMBS UP"
    ELSE IF ThumbExtendedDown(h) /\ FourNotExtendedUp(h) THEN "THUMBS DOWN"
    ELSE IF PeaceFingers(h) THEN "PEACE SIGN"
    ELSE IF ~ThumbExtendedUp(h) /\ FourNotExtendedUp(h) THEN "FIST"
    ELSE "Unknown gesture"

(***************************************************************************)
(* C11 (as claimed).  For every hand, debug_gestures' analyze_hand         *)
(* followed by detect_gesture returns the symbol of the spec's ruleset; in *)
(* particular a hand none of whose five digits is extended-up and that is  *)
(* not ThumbsDown is classified Fist.                                      *)
(***************************************************************************)
C11_MatchesRuleset ==
    cls # Unclassified => cls.dg = RulesetSymbol(hand)

(***************************************************************************)
(* C11 (amended).  debug_gestures returns ThumbsUp exactly for the hands   *)
(* of rule 1, ThumbsDown exactly for those of rule 2, Peace exactly for    *)
(* those of rule 3, and Fist exactly for the hands that are not ThumbsDown *)
(* and whose thumb tip is not above its IP joint and whose four other      *)
(* fingers are not extended-up; every other hand is unknown, among them    *)
(* the hand whose thumb tip is above its IP joint but not above its MCP    *)
(* joint while the four other fingers are not extended-up.                 *)
(***************************************************************************)
C11_RulesWithIpFist ==
    cls # Unclassified =>
        /\ cls.dg = "THUMBS UP"
              <=> (ThumbExtendedUp(hand) /\ FourNotExtendedUp(hand))
        /\ cls.dg = "THUMBS DOWN"
              <=> (ThumbExtendedDown(hand) /\ FourNotExtendedUp(hand))
        /\ cls.dg = "PEACE SIGN" <=> PeaceFingers(hand)
        /\ cls.dg = "FIST"
              <=> /\ hand.thumb_tip >= hand.thumb_ip
                  /\ FourNotExtendedUp(hand)
                  /\ ~ThumbExtendedDown(hand)
        /\ cls.dg \in {"THUMBS UP", "THUMBS DOWN", "PEACE SIGN", "FIST",
                       "Unknown gesture"}

\* A curled hand whose thumb tip is above its IP joint but level with its
\* MCP joint: unknown to debug_gestures, Fist by the ruleset.
C11_Witness ==
    /\ cls # Unclassified
    /\ hand.thumb_tip < hand.thumb_ip
    /\ hand.thumb_tip = hand.thumb_mcp
    /\ FourNotExtendedUp(hand)
    /\ cls.dg = "Unknown gesture"
    /\ RulesetSymbol(hand) = "FIST"

(***************************************************************************)
(* C12.  Two hands that have the same y at every keypoint and different x  *)
(* coordinates get the same symbol from debug_gestures, from               *)
(* dual_window_ascii, from quick_gesture_test and from gesture_only.       *)
(***************************************************************************)
C12_MirrorInvariant ==
    cls_mirror # Unclassified =>
        /\ cls_mirror.dg = cls.dg
        /\ cls_mirror.dwa = cls.dwa
        /\ cls_mirror.qgt = cls.qgt
        /\ cls_mirror.go = cls.go

\* A thumbs-up seen again with the thumb tip on the other side of its joint.
C12_Witness ==
    /\ cls_mirror # Unclassified
    /\ hand_x.thumb_tip > hand_x.thumb_ip
    /\ cls.go = "thumb_up"
    /\ cls_mirror.go = "thumb_up"
    /\ cls_mirror.qgt = "thumbs_up"

(***************************************************************************)
(* C13 (as claimed).  For every grey level p in 0..255, pixel_to_ascii(p)  *)
(* is glyph floor(p / 256 * 10) of the ramp "@%#*+=-:. ": '@' for 0, ' '   *)
(* for 255 and ramp[5] = '=' for 128.                                      *)
(***************************************************************************)
C13_IndexBy256 ==
    quantized.pta # Unquantized =>
        /\ quantized.pta.glyph
             = GlyphAt(ascii_chars, (pixel_value * Len(ascii_chars)) \div 256)
        /\ pixel_value = 128 => quantized.pta.glyph = "="

(***************************************************************************)
(* C13 (amended).  For every grey level p in 0..255, pixel_to_ascii(p) is  *)
(* glyph k of the ramp, where k is the one index in 0..9 with              *)
(* 255 * k <= 9 * p < 255 * (k + 1), that is k = floor(p / 255 * 9): '@'   *)
(* for 0, ' ' for 255 (and for no other level) and ramp[4] = '+' for 128.  *)
(***************************************************************************)
C13_IndexBy255 ==
    quantized.pta # Unquantized =>
        /\ \E k \in 0..9 :
            /\ ByteMax * k <= 9 * pixel_value
            /\ 9 * pixel_value < ByteMax * (k + 1)
            /\ quantized.pta.index = k
            /\ quantized.pta.glyph = ascii_chars[k + 1]
        /\ pixel_value = 0 => quantized.pta.glyph = "@"
        /\ pixel_value = 128 => quantized.pta.glyph = "+"
        /\ pixel_value = ByteMax <=> quantized.pta.glyph = " "

\* Grey level 128 has been mapped, to '+'.
C13_Witness ==
    /\ pixel_value = 128
    /\ quantized.pta.index = 4
    /\ quantized.pta.glyph = "+"

(***************************************************************************)
(* C14.  Quantization is monotonic in every variant: for grey levels       *)
(* p1 < p2 in 0..255 the ramp index of p1 is at most that of p2, for       *)
(* pixel_to_ascii and for realtime_ascii's convert_to_ascii.               *)
(***************************************************************************)
C14_QuantizeMonotonic ==
    /\ (quantized.pta # Unquantized /\ pixel_value < other_pixel)
          => quantized.pta.index <= quantized.pta.other_index
    /\ (quantized.rt # Unquantized /\ pixel_value < other_pixel)
          => quantized.rt.index <= quantized.rt.other_index

\* Two grey levels that realtime_ascii tells apart and pixel_to_ascii does
\* not.
C14_Witness ==
    /\ quantized.pta # Unquantized
    /\ quantized.rt # Unquantized
    /\ pixel_value < other_pixel
    /\ quantized.rt.index < quantized.rt.other_index
    /\ quantized.pta.index = quantized.pta.other_index

(***************************************************************************)
(* C15.  For every grey level in 0..255 the ramp index lies in 0..M-1, so  *)
(* the lookup never leaves the ramp, and the ends are anchored: 0 maps to  *)
(* ramp[0] and 255 to ramp[M-1]; for the 10-glyph ramp of pixel_to_ascii   *)
(* and for realtime_ascii's 12-glyph character_set in its normal and in    *)
(* its reversed (dark mode) order.                                         *)
(***************************************************************************)
C15_IndexInRange ==
    /\ quantized.pta # Unquantized =>
        /\ quantized.pta.index \in 0..(Len(ascii_chars) - 1)
        /\ quantized.pta.glyph # "IndexError"
        /\ pixel_value = 0 => quantized.pta.glyph = ascii_chars[1]
        /\ pixel_value = ByteMax
              => quantized.pta.glyph = ascii_chars[Len(ascii_chars)]
    /\ quantized.rt # Unquantized =>
        /\ quantized.rt.index \in 0..(Len(character_set) - 1)
        /\ quantized.rt.glyph # "IndexError"
        /\ pixel_value = 0 => quantized.rt.glyph = character_set[1]
        /\ pixel_value = ByteMax
              => quantized.rt.glyph = character_set[Len(character_set)]
        /\ Len(character_set) = 12

\* Dark mode: the brightest grey level gets the last glyph of the reversed
\* character_set, '@'.
C15_Witness ==
    /\ dark_mode
    /\ pixel_value = ByteMax
    /\ quantized.rt.index = 11
    /\ quantized.rt.glyph = "@"
    /\ character_set[1] = " "

(***************************************************************************)
(* C16 (as claimed).  When a camera read returns no frame the session      *)
(* terminates: the main loop stops without retrying the read, and the run  *)
(* reaches its cleanup with the camera released; in every script's loop,   *)
(* realtime_ascii's and simple_test's among them.  As a statement about    *)
(* states: once a read has failed the script is no longer in its loop, and *)
(* a run that is done has released the camera.                             *)
(***************************************************************************)
C16_ReadFailureEndsSession ==
    /\ failed_reads > 0 => pc # "loop"
    /\ pc = "done" => camera = "released"

(***************************************************************************)
(* C17.  In dual_window_ascii an iteration that confirms no gesture leaves *)
(* brightness, contrast and show_hands unchanged.                          *)
(***************************************************************************)
C17_NoGestureNoChange ==
    [][(script = "dual_window_ascii" /\ pc = "loop" /\ pc' # "read_failed"
        /\ confirmed' = None)
          => /\ brightness' = brightness
             /\ contrast' = contrast
             /\ show_hands' = show_hands]_vars

\* A thumbs-up frame inside the cooldown of a confirmed thumbs-up: nothing
\* is confirmed and brightness stays at 1.2.
C17_Witness ==
    /\ script = "dual_window_ascii"
    /\ confirmed = None
    /\ since_event = 1
    /\ NewestAll(history, 1, "brightness_up")
    /\ prev_brightness = BrightnessDefault + BrightnessStep
    /\ brightness = BrightnessDefault + BrightnessStep

(***************************************************************************)
(* C18 (as claimed).  In realtime_ascii, after the R key is handled every  *)
(* setting has its initial default: char_size 5, font_scale 0.2,           *)
(* brightness_level 1.0, and the theme (dark_mode False, background_color  *)
(* 255, text_color black, character_set in its original order).           *)
(***************************************************************************)
C18_ResetRestoresDefaults ==
    last_key = "r" =>
        /\ char_size = RT_CharSizeDefault
        /\ font_scale = RT_FontScaleDefault
        /\ brightness_level = RT_BrightnessDefault
        /\ dark_mode = FALSE
        /\ background_color = White
        /\ text_color = <<Black, Black, Black>>
        /\ character_set = RT_character_set

(***************************************************************************)
(* C19.  In realtime_ascii, after any sequence of key events char_size is  *)
(* an integer in [2, 15] and brightness_level is in [0.3, 2.0]; a request  *)
(* beyond a bound is clamped to the bound.                                 *)
(***************************************************************************)
C19_SizeAndBrightnessClamped ==
    /\ [](/\ char_size \in RT_CharSizeMin..RT_CharSizeMax
          /\ brightness_level >= RT_BrightnessMin
          /\ brightness_level <= RT_BrightnessMax)
    /\ [][/\ (last_key' = "up" /\ char_size = RT_CharSizeMax)
                => char_size' = RT_CharSizeMax
          /\ (last_key' = "down" /\ char_size = RT_CharSizeMin)
                => char_size' = RT_CharSizeMin
          /\ (last_key' \in {"+", "="} /\ brightness_level = RT_BrightnessMax)
                => brightness_level' = RT_BrightnessMax
          /\ (last_key' = "-" /\ brightness_level = RT_BrightnessMin)
                => brightness_level' = RT_BrightnessMin]_vars

\* The up key handled with char_size at 15, brightness_level at 0.3.
C19_Witness ==
    /\ script = "realtime_ascii"
    /\ last_key = "up"
    /\ char_size = RT_CharSizeMax
    /\ brightness_level = RT_BrightnessMin

(***************************************************************************)
(* C20.  For every grey level in 0..255 and two brightness settings        *)
(* b1 <= b2 of the allowed range, contrast fixed, the grey level adjusted  *)
(* under b1 is at most the one adjusted under b2, both lie in 0..255, and  *)
(* the glyph index under b1 is at most the one under b2; for the offset    *)
(* convention of simple_ascii_converter and for the gain convention of     *)
(* dual_window_ascii, simple_realtime_ascii and realtime_ascii.            *)
(***************************************************************************)
C20_BrighterNeverDarker ==
    /\ adjusted.dwa1 # Unadjusted.dwa1 =>
        /\ {adjusted.sac1, adjusted.sac2, adjusted.dwa1, adjusted.dwa2,
            adjusted.sra1, adjusted.sra2} \subseteq 0..ByteMax
        /\ adjusted.sac1 <= adjusted.sac2
        /\ adjusted.dwa1 <= adjusted.dwa2
        /\ adjusted.sra1 <= adjusted.sra2
        /\ PixelIndex(adjusted.sac1, ascii_chars)
             <= PixelIndex(adjusted.sac2, ascii_chars)
        /\ PixelIndex(adjusted.dwa1, ascii_chars)
             <= PixelIndex(adjusted.dwa2, ascii_chars)
        /\ PixelIndex(adjusted.sra1, ascii_chars)
             <= PixelIndex(adjusted.sra2, ascii_chars)
    /\ adjusted.rt1 # Unadjusted.rt1 =>
        /\ {adjusted.rt1, adjusted.rt2} \subseteq 0..ByteMax
        /\ adjusted.rt1 <= adjusted.rt2
        /\ RT_index(adjusted.rt1) <= RT_index(adjusted.rt2)

\* Grey level 200 under 1.2 and under 1.3: realtime_ascii gives 240 and the
\* clipped 255, the offset convention 255 both times.
C20_Witness ==
    /\ pixel_value = 200
    /\ setting1.tenths = 12
    /\ setting2.tenths = 13
    /\ adjusted.rt1 = 240
    /\ adjusted.rt2 = ByteMax
    /\ adjusted.dwa1 = 240
    /\ adjusted.sac1 = ByteMax

(***************************************************************************)
(* C21.  realtime_ascii keeps its theme consistent: dark_mode is true      *)
(* exactly when character_set is the reverse of its initial order, the     *)
(* background is 0 and the text white, and false exactly when the ramp is  *)
(* in its initial order, the background 255 and the text black; and two    *)
(* T keys handled one after the other give back the theme there was       *)
(* before the first.                                                       *)
(***************************************************************************)
DarkTheme ==
    /\ character_set = Reverse(RT_character_set)
    /\ background_color = Black
    /\ text_color = <<White, White, White>>

LightTheme ==
    /\ character_set = RT_character_set
    /\ background_color = White
    /\ text_color = <<Black, Black, Black>>

C21_ThemeConsistent ==
    /\ [](script = "realtime_ascii" =>
            /\ dark_mode <=> DarkTheme
            /\ ~dark_mode <=> LightTheme)
    /\ [][(/\ script = "realtime_ascii"
            /\ pc = "loop"
            /\ last_key = "t"
            /\ last_key' = "t")
            => Theme' = prev_theme]_vars

\* The second of two T keys has just been handled.
C21_Witness ==
    /\ script = "realtime_ascii"
    /\ last_key = "t"
    /\ prev_theme.dark_mode
    /\ prev_theme.character_set = Reverse(RT_character_set)
    /\ LightTheme
    /\ ~dark_mode

(***************************************************************************)
(* C22.  In realtime_ascii, at the end of every loop iteration            *)
(* is_recording is true exactly when video_writer is not None; SPACE       *)
(* toggles both together and no other key changes either; a writer still   *)
(* open when the loop ends is released by the cleanup.                     *)
(***************************************************************************)
C22_RecordingMatchesWriter ==
    /\ [](script = "realtime_ascii" =>
            /\ pc \in {"loop", "quit"} =>
                 (is_recording <=> video_writer # None)
            /\ pc = "done" => video_writer # "open")
    /\ [][(script = "realtime_ascii" /\ pc = "loop") =>
            IF last_key' = "space"
            THEN /\ is_recording' = ~is_recording
                 /\ (video_writer' # None) = ~(video_writer # None)
            ELSE UNCHANGED <<is_recording, video_writer>>]_vars
    /\ [][(script = "realtime_ascii" /\ pc = "quit" /\ video_writer = "open")
            => video_writer' = "released"]_vars

\* A recording has been started and stopped again.
C22_Witness ==
    /\ script = "realtime_ascii"
    /\ pc = "loop"
    /\ last_key = "space"
    /\ ~is_recording
    /\ video_writer = None
    /\ writer_size = 0

(***************************************************************************)
(* C23.  In dual_window_ascii a confirmed gesture changes the parameters   *)
(* of its own action only: brightness_up and brightness_down move          *)
(* brightness by one step of 0.2, clamped to [0.2, 2.0], and leave         *)
(* contrast and show_hands; toggle_hands flips show_hands and leaves       *)
(* brightness and contrast; reset sets brightness and contrast to 1.0 and  *)
(* leaves show_hands.                                                      *)
(***************************************************************************)
C23_GestureChangesOwnParameters ==
    [][(script = "dual_window_ascii" /\ pc = "loop" /\ pc' # "read_failed")
         => /\ confirmed' = "brightness_up" =>
                 /\ brightness' = Min(BrightnessMax, brightness + BrightnessStep)
                 /\ UNCHANGED <<contrast, show_hands>>
            /\ confirmed' = "brightness_down" =>
                 /\ brightness' = Max(BrightnessMin, brightness - BrightnessStep)
                 /\ UNCHANGED <<contrast, show_hands>>
            /\ confirmed' = "toggle_hands" =>
                 /\ show_hands' = ~show_hands
                 /\ UNCHANGED <<brightness, contrast>>
            /\ confirmed' = "reset" =>
                 /\ brightness' = BrightnessDefault
                 /\ contrast' = ContrastDefault
                 /\ UNCHANGED show_hands]_vars

\* A peace sign confirmed at brightness 1.2: the landmarks are switched off
\* and the brightness is still 1.2.
C23_Witness ==
    /\ script = "dual_window_ascii"
    /\ confirmed = "toggle_hands"
    /\ ~show_hands
    /\ prev_brightness = BrightnessDefault + BrightnessStep
    /\ brightness = BrightnessDefault + BrightnessStep
    /\ contrast = ContrastDefault

(***************************************************************************)
(* C24 (as claimed).  A loop iteration that polls the quit key ends the    *)
(* loop: no frame is read afterwards, no display parameter changes         *)
(* afterwards and the camera is released; and a q the user presses ends    *)
(* the session in every script, realtime_ascii with failing camera reads   *)
(* included.  (simple_test is left out of the first conjunct: its for loop *)
(* of 50 iterations ends by itself.)                                       *)
(***************************************************************************)
C24_QuitEndsSession ==
    /\ []((pressed = "q" /\ script # "simple_test") => pc # "loop")
    /\ [](pc = "done" => camera = "released")
    /\ [][pc # "loop" =>
            UNCHANGED <<now, failed_reads, loop_i, history, brightness,
                        contrast, show_hands, show_ascii, char_size,
                        font_scale, brightness_level, dark_mode,
                        background_color, text_color, character_set,
                        show_help, is_recording>>]_vars

(***************************************************************************)
(* C25.  In quick_gesture_test a thumbs-up held on every frame, with the   *)
(* clock advancing, takes the brightness to 2.0, where it stays while the  *)
(* gesture is held; a held thumbs-down takes it to 0.2 in the same way.    *)
(* The gesture fires again after every cooldown, not once only.            *)
(***************************************************************************)
C25_HeldGestureReachesClamp ==
    /\ (held = "thumbs_up") ~> (brightness = BrightnessMax)
    /\ (held = "thumbs_down") ~> (brightness = BrightnessMin)
    /\ [][(held = "thumbs_up" /\ brightness = BrightnessMax)
            => brightness' = BrightnessMax]_vars
    /\ [][(held = "thumbs_down" /\ brightness = BrightnessMin)
            => brightness' = BrightnessMin]_vars

\* The held thumbs-up fires at 2.0 and the brightness stays there.
C25_Witness ==
    /\ held = "thumbs_up"
    /\ confirmed = "thumbs_up"
    /\ prev_brightness = BrightnessMax
    /\ brightness = BrightnessMax

(***************************************************************************)
(* C26 (as claimed).  In realtime_ascii every frame written to the video   *)
(* writer has the frame size the writer was opened with, whatever keys are *)
(* handled during the recording.  frame_width and frame_height are fixed   *)
(* before the loop, so the size of a rendered frame is given by the        *)
(* char_size it was rendered with, the one at the head of the iteration.   *)
(***************************************************************************)
C26_WrittenFrameMatchesWriter ==
    [][(/\ script = "realtime_ascii"
        /\ pc = "loop"
        /\ failed_reads' = failed_reads
        /\ last_key' \notin {"q", "esc"}
        /\ is_recording'
        /\ video_writer' # None)
          => char_size = writer_size']_vars

(***************************************************************************)
(* C27 (as claimed).  For the string convert_to_ascii makes of a frame of  *)
(* H rows of W glyphs, render_ascii_image draws every row, each with its   *)
(* W glyphs and no newline, row r at vertical offset r * char_size: one    *)
(* putText per glyph, in row-major order.                                  *)
(***************************************************************************)
ExpectedCalls(pd, w, cs) ==
    [n \in 1..Len(pd) |->
       [character |-> pd[n],
        x |-> ((n - 1) % w) * cs,
        y |-> ((n - 1) \div w) * cs]]

C27_EveryRowDrawn ==
    canvas # Unrendered =>
        canvas.calls = ExpectedCalls(pixel_data, frame_width, char_size)

(***************************************************************************)
(* C28 (as claimed).  HandDetectionDebug.run keeps detection_count at or   *)
(* below frame_count and prints its final statistics without raising,      *)
(* whatever the camera delivers, a first read that fails included.         *)
(***************************************************************************)
C28_RunFinishesNormally ==
    /\ detection_count <= frame_count
    /\ pc # "ZeroDivisionError"

=============================================================================
